---- MODULE Spec2Model ----
(***************************************************************************)
(* Message-retention scheduler of discord-irc: the Purge scheduler         *)
(* (lib/purge.js), the Watcher that feeds it (lib/watcher.js) and the part *)
(* of the Bot (lib/bot.js) that wires both to the discord client.          *)
(*                                                                         *)
(* Every handler runs to completion in one turn of the node event loop, so *)
(* each action below is one whole callback.  Promises (message.delete(),   *)
(* channel.fetchMessages()) are requests kept in a variable until the turn *)
(* that runs their callback.                                               *)
(***************************************************************************)
EXTENDS Integers, Sequences, FiniteSets, TLC

(* ------------------------------ bounds -------------------------------- *)
MaxMsg == 2          \* messages ever posted to the discord server
MaxId == 3           \* message ids handed to the Purge by its callers
MaxClock == 2        \* clock steps
MaxCalled == 3       \* stats.itemsDeletedCalled from which ticks stop
MaxFetch == 1        \* outstanding history fetches from which polls stop
MaxBackoff == 2      \* backlog ticks that grow the interval
MaxPosted == 3       \* messages ever posted, when the counters are left out
MaxTime == 3         \* clock steps, when the counters are left out

(* --------------------------- configuration ---------------------------- *)
purgeCountPerRound == 2
purgeTimerInterval0 == 10000
messageLifeTime == [seconds |-> 1]
FetchLimit == 50

Null == [nil |-> "null"]
Undefined == [nil |-> "undefined"]

\* the text channels the discord client knows, and the configured mapping
\* values handed to the Watcher
DiscordChannels == {[id |-> "100", name |-> "general", type |-> "text"],
                    [id |-> "300", name |-> "lobby", type |-> "text"]}
Mappings == <<[hash |-> TRUE, rest |-> "general"],
              [hash |-> TRUE, rest |-> "nochan"]>>

\* the mappings the bot may be configured with: a name that resolves not,
\* two channels that resolve, a channel id that resolves not
MappingsBoth == <<[hash |-> TRUE, rest |-> "general"],
                  [hash |-> TRUE, rest |-> "lobby"]>>
MappingsById == <<[hash |-> TRUE, rest |-> "general"],
                  [hash |-> FALSE, rest |-> "999"]>>
MappingConfigs == {Mappings, MappingsBoth, MappingsById}

(* ------------------------------ helpers -------------------------------- *)
Field(r, f) == IF f \in DOMAIN r THEN r[f] ELSE 0

\* getLifeTimeOffset that counts an hour as 60 seconds
getLifeTimeOffsetHours(lt) ==
  LET s1 == Field(lt, "days") * 24 * 60 * 60
      s2 == s1 + Field(lt, "hours") * 60
      s3 == s2 + Field(lt, "minutes") * 60
      s4 == s3 + Field(lt, "seconds")
  IN s4 * 1000

getLifeTimeOffset(lt) ==
  LET s1 == Field(lt, "days") * 24 * 60 * 60
      s2 == s1 + Field(lt, "hours") * 60 * 60
      s3 == s2 + Field(lt, "minutes") * 60
      s4 == s3 + Field(lt, "seconds")
  IN s4 * 1000

\* one clock step of the model, in milliseconds
ClockStep == getLifeTimeOffset(messageLifeTime)

\* index of the first element satisfying Test, 0 when there is none
\* (Array.prototype.findIndex, 1-based)
RECURSIVE FindFrom(_, _, _)
FindFrom(s, id, i) ==
  IF i > Len(s) THEN 0
  ELSE IF s[i].message.id = id THEN i
  ELSE FindFrom(s, id, i + 1)

findIndex(s, id) == FindFrom(s, id, 1)

\* Array.prototype.splice(index, 1)
splice(s, i) == SubSeq(s, 1, i - 1) \o SubSeq(s, i + 1, Len(s))

\* insertion of t behind every element that is not later than it
RECURSIVE InsertByDue(_, _)
InsertByDue(s, t) ==
  IF s = <<>> THEN <<t>>
  ELSE IF t.dueDate < Head(s).dueDate THEN <<t>> \o s
  ELSE <<Head(s)>> \o InsertByDue(Tail(s), t)

\* Array.prototype.sort((l, r) => l.dueDate - r.dueDate), stable
RECURSIVE SortFrom(_, _)
SortFrom(s, acc) ==
  IF s = <<>> THEN acc ELSE SortFrom(Tail(s), InsertByDue(acc, Head(s)))

sortByDueDate(s) == SortFrom(s, <<>>)

RECURSIVE GCD(_, _)
GCD(a, b) == IF b = 0 THEN a ELSE GCD(b, a % b)

\* the rational n/d in lowest terms (the code computes in floating point)
Ratio(n, d) == [n |-> n \div GCD(n, d), d |-> d \div GCD(n, d)]

(* ------------------------------- state --------------------------------- *)
VARIABLES
  now,                 \* new Date() as seen by the next handler
  discordMessages,     \* the messages that exist on the discord server
  nextId,              \* the id the next posted message gets
  messageQueue,        \* Purge.messageQueue
  sas,                 \* Purge.sas
  stats,               \* Purge.stats
  purgeTimerInterval,  \* Purge.config.purgeTimerInterval
  purgeTimer,          \* delays of the pending setTimeouts of the scheduler
  deletes,             \* message.delete() promises not yet settled
  mappings,            \* Watcher.mappings
  lifeTime,            \* Watcher.config.messageLifeTime
  ready,               \* the discord client has emitted 'ready'
  chans,               \* Watcher.chans
  lifeTimeOffset,      \* Watcher.lifeTimeOffset
  fetches,             \* chan.fetchMessages() promises not yet settled
  backoffs,            \* number of backlog ticks so far
  alive,               \* FALSE once an exception has escaped a handler
  removed,             \* history: how often each id has left messageQueue
  failed,              \* history: the ids of which a delete was rejected
  last                 \* the handler that ran last, with its inputs

vars == <<now, discordMessages, nextId, messageQueue, sas, stats,
          purgeTimerInterval, purgeTimer, deletes, mappings, lifeTime, ready,
          chans, lifeTimeOffset,
          fetches, backoffs, alive, removed, failed,
          last>>

purgeVars == <<messageQueue, sas, stats, purgeTimerInterval, purgeTimer,
               deletes, backoffs>>
watcherVars == <<mappings, lifeTime, ready, chans, lifeTimeOffset, fetches>>
discordVars == <<discordMessages, nextId>>
histVars == <<removed, failed>>

\* the message ids of a sequence of tuples
ids(s) == {s[i].message.id : i \in DOMAIN s}

(* ------------------------------- Purge --------------------------------- *)
\* candidates that lets an entry through at its due date
candidatesAtDueDate(q, s, t) ==
  sortByDueDate(
    SelectSeq(SelectSeq(q, LAMBDA x : findIndex(s, x.message.id) = 0),
              LAMBDA x : x.dueDate <= t))

\* the candidates of one iteration of the selection loop
candidates(q, s, t) ==
  sortByDueDate(
    SelectSeq(SelectSeq(q, LAMBDA x : findIndex(s, x.message.id) = 0),
              LAMBDA x : x.dueDate < t))

\* purgeLoop without this.sas.push(tuple)
RECURSIVE purgeLoopNoPush(_, _, _, _, _)
purgeLoopNoPush(i, q, s, t, called) ==
  IF i >= purgeCountPerRound THEN [sas |-> s, called |-> called]
  ELSE LET c == candidates(q, s, t)
       IN IF i + 1 <= Len(c)
          THEN purgeLoopNoPush(i + 1, q, s, t, Append(called, c[i + 1]))
          ELSE purgeLoopNoPush(i + 1, q, s, t, called)

\* purgeLoop that never deletes the earliest candidate
RECURSIVE purgeLoopFromSecond(_, _, _, _, _)
purgeLoopFromSecond(i, q, s, t, called) ==
  IF i >= purgeCountPerRound THEN [sas |-> s, called |-> called]
  ELSE LET c == candidates(q, s, t)
       IN IF i + 2 <= Len(c)
          THEN purgeLoopFromSecond(i + 1, q, Append(s, c[i + 2]), t,
                                   Append(called, c[i + 2]))
          ELSE purgeLoopFromSecond(i + 1, q, s, t, called)

\* the for loop of purgeTimerWatch from iteration i on: the sas it leaves and
\* the tuples whose delete() it has called
RECURSIVE purgeLoop(_, _, _, _, _)
purgeLoop(i, q, s, t, called) ==
  IF i >= purgeCountPerRound THEN [sas |-> s, called |-> called]
  ELSE LET c == candidates(q, s, t)
       IN IF i + 1 <= Len(c)
          THEN purgeLoop(i + 1, q, Append(s, c[i + 1]), t,
                         Append(called, c[i + 1]))
          ELSE purgeLoop(i + 1, q, s, t, called)

\* removeFromStores that forgets the second store
removeFromQueueOnly(q, s, tuple) ==
  LET iq == findIndex(q, tuple.message.id)
  IN [messageQueue |-> IF iq # 0 THEN splice(q, iq) ELSE q, sas |-> s]

\* removeFromStores that forgets the first store
removeFromSasOnly(q, s, tuple) ==
  LET is == findIndex(s, tuple.message.id)
  IN [messageQueue |-> q, sas |-> IF is # 0 THEN splice(s, is) ELSE s]

\* removeFromStores with splice(index) for splice(index, 1)
removeFromStoresToEnd(q, s, tuple) ==
  LET iq == findIndex(q, tuple.message.id)
      is == findIndex(s, tuple.message.id)
  IN [messageQueue |-> IF iq # 0 THEN SubSeq(q, 1, iq - 1) ELSE q,
      sas |-> IF is # 0 THEN SubSeq(s, 1, is - 1) ELSE s]

removeFromStores(q, s, tuple) ==
  LET iq == findIndex(q, tuple.message.id)
      is == findIndex(s, tuple.message.id)
  IN [messageQueue |-> IF iq # 0 THEN splice(q, iq) ELSE q,
      sas |-> IF is # 0 THEN splice(s, is) ELSE s]

\* getOldestMessageInQueue with the comparison of the sort reversed
getNewestMessageInQueue(q) ==
  LET sorted == sortByDueDate(q)
  IN IF sorted = <<>> THEN Null ELSE sorted[Len(sorted)].message

getOldestMessageInQueue(q) ==
  LET sorted == sortByDueDate(q)
  IN IF sorted = <<>> THEN Null ELSE sorted[1].message

\* addMessage without the test for a tracked id
addMessageUnchecked(q, message, dueDate) ==
  Append(q, [dueDate |-> dueDate, message |-> message])

addMessage(q, message, dueDate) ==
  IF findIndex(q, message.id) = 0
  THEN Append(q, [dueDate |-> dueDate, message |-> message])
  ELSE q

\* new Purge(options.purge); purger.start()
PurgeInit ==
  /\ messageQueue = <<>>
  /\ sas = <<>>
  /\ stats = [itemsDeleted |-> 0, itemsDeletedCalled |-> 0, errors |-> 0]
  /\ purgeTimerInterval = Ratio(purgeTimerInterval0, 1)
  /\ purgeTimer = <<Ratio(purgeTimerInterval0, 1)>>
  /\ deletes = <<>>
  /\ backoffs = 0

\* the interval grown by k / purgeCountPerRound instead of by that share of it
backoffFlat(interval, k) ==
  Ratio(interval.n * purgeCountPerRound + k * interval.d,
        interval.d * purgeCountPerRound)

\* purgeTimerInterval += purgeTimerInterval * (k / purgeCountPerRound)
backoff(interval, k) ==
  Ratio(interval.n * (purgeCountPerRound + k), interval.d * purgeCountPerRound)

\* the timer that fired is gone; continue(timeout) sets the next one
continue(timers, timeout) == Append(Tail(timers), timeout)

\* purgeTimerWatchBacklog that forgets the deletes it waited for
purgeTimerWatchBacklogDrop ==
  /\ Len(sas) > 0
  /\ backoffs < MaxBackoff
  /\ purgeTimerInterval' = backoff(purgeTimerInterval, Len(sas))
  /\ purgeTimer' = continue(purgeTimer, Ratio(Len(sas), purgeCountPerRound))
  /\ backoffs' = backoffs + 1
  /\ sas' = <<>>
  /\ last' = [op |-> "backlog"]
  /\ UNCHANGED <<messageQueue, stats, deletes>>

\* purgeTimerWatchBacklog that returns without this.continue(...)
purgeTimerWatchBacklogNoContinue ==
  /\ Len(sas) > 0
  /\ backoffs < MaxBackoff
  /\ purgeTimerInterval' = backoff(purgeTimerInterval, Len(sas))
  /\ purgeTimer' = Tail(purgeTimer)
  /\ backoffs' = backoffs + 1
  /\ last' = [op |-> "backlog"]
  /\ UNCHANGED <<messageQueue, sas, stats, deletes>>

\* the timer callback while deletes of a previous batch are unsettled
purgeTimerWatchBacklog ==
  /\ Len(sas) > 0
  /\ backoffs < MaxBackoff
  /\ purgeTimerInterval' = backoff(purgeTimerInterval, Len(sas))
  /\ purgeTimer' = continue(purgeTimer, Ratio(Len(sas), purgeCountPerRound))
  /\ backoffs' = backoffs + 1
  /\ last' = [op |-> "backlog"]
  /\ UNCHANGED <<messageQueue, sas, stats, deletes>>

\* purgeTimerWatchBatch that selects while deletes are unsettled
purgeTimerWatchNoWait ==
  /\ stats.itemsDeletedCalled < MaxCalled
  /\ LET r == purgeLoop(0, messageQueue, sas, now, <<>>)
     IN /\ sas' = r.sas
        /\ deletes' = deletes \o r.called
        /\ stats' = [stats EXCEPT !.itemsDeletedCalled = @ + Len(r.called)]
        /\ last' = [op |-> "batch", n |-> Len(r.called)]
  /\ purgeTimer' = continue(purgeTimer, purgeTimerInterval)
  /\ UNCHANGED <<messageQueue, purgeTimerInterval, backoffs>>

\* purgeTimerWatchBatch that goes back to the configured interval
purgeTimerWatchBatchReset ==
  /\ Len(sas) = 0
  /\ stats.itemsDeletedCalled < MaxCalled
  /\ LET r == purgeLoop(0, messageQueue, sas, now, <<>>)
     IN /\ sas' = r.sas
        /\ deletes' = deletes \o r.called
        /\ stats' = [stats EXCEPT !.itemsDeletedCalled = @ + Len(r.called)]
        /\ last' = [op |-> "batch", n |-> Len(r.called)]
  /\ purgeTimerInterval' = Ratio(purgeTimerInterval0, 1)
  /\ purgeTimer' = continue(purgeTimer, purgeTimerInterval')
  /\ UNCHANGED <<messageQueue, backoffs>>

\* the timer callback that selects a batch
purgeTimerWatchBatch ==
  /\ Len(sas) = 0
  /\ stats.itemsDeletedCalled < MaxCalled
  /\ LET r == purgeLoop(0, messageQueue, sas, now, <<>>)
     IN /\ sas' = r.sas
        /\ deletes' = deletes \o r.called
        /\ stats' = [stats EXCEPT !.itemsDeletedCalled = @ + Len(r.called)]
        /\ last' = [op |-> "batch", n |-> Len(r.called)]
  /\ purgeTimer' = continue(purgeTimer, purgeTimerInterval)
  /\ UNCHANGED <<messageQueue, purgeTimerInterval, backoffs>>

purgeTimerWatch ==
  /\ alive
  /\ purgeTimer # <<>>
  /\ \/ purgeTimerWatchBacklog
     \/ purgeTimerWatchBatch
  /\ UNCHANGED <<now, discordVars, watcherVars, alive, histVars>>

\* the fulfilment callback of tuple.message.delete()
deleteFulfilled(i) ==
  /\ alive
  /\ i \in DOMAIN deletes
  /\ LET tuple == deletes[i]
         r == removeFromStores(messageQueue, sas, tuple)
     IN /\ stats' = [stats EXCEPT !.itemsDeleted = @ + 1]
        /\ messageQueue' = r.messageQueue
        /\ sas' = r.sas
        /\ last' = [op |-> "deleted", id |-> tuple.message.id]
  /\ deletes' = splice(deletes, i)
  /\ UNCHANGED <<now, purgeTimerInterval, purgeTimer, backoffs, watcherVars,
                 alive>>

\* deleteRejected that does not count the error
deleteRejectedUncounted(i) ==
  /\ alive
  /\ i \in DOMAIN deletes
  /\ LET tuple == deletes[i]
         r == removeFromStores(messageQueue, sas, tuple)
     IN /\ messageQueue' = r.messageQueue
        /\ sas' = r.sas
        /\ last' = [op |-> "error", id |-> tuple.message.id]
  /\ deletes' = splice(deletes, i)
  /\ UNCHANGED <<now, stats, purgeTimerInterval, purgeTimer, backoffs,
                 watcherVars, alive>>

\* the rejection callback of tuple.message.delete()
deleteRejected(i) ==
  /\ alive
  /\ i \in DOMAIN deletes
  /\ LET tuple == deletes[i]
         r == removeFromStores(messageQueue, sas, tuple)
     IN /\ stats' = [stats EXCEPT !.errors = @ + 1]
        /\ messageQueue' = r.messageQueue
        /\ sas' = r.sas
        /\ last' = [op |-> "error", id |-> tuple.message.id]
  /\ deletes' = splice(deletes, i)
  /\ UNCHANGED <<now, purgeTimerInterval, purgeTimer, backoffs, watcherVars,
                 alive>>

(* ------------------------------ Watcher -------------------------------- *)
\* Collection.find('name', n) over the text channels: null when absent
findByName(n) ==
  IF \E c \in DiscordChannels : c.type = "text" /\ c.name = n
  THEN CHOOSE c \in DiscordChannels : c.type = "text" /\ c.name = n
  ELSE Null

\* Collection.get(id): undefined when absent
getById(id) ==
  IF \E c \in DiscordChannels : c.id = id
  THEN CHOOSE c \in DiscordChannels : c.id = id
  ELSE Undefined

resolveChannels(ms) ==
  SelectSeq([i \in DOMAIN ms |->
               IF ms[i].hash THEN findByName(ms[i].rest)
               ELSE getById(ms[i].rest)],
            LAMBDA c : c # Null)

fetchParams(q) ==
  LET oldest == getOldestMessageInQueue(q)
  IN IF oldest = Null THEN [limit |-> FetchLimit]
     ELSE [before |-> oldest.id, limit |-> FetchLimit]

sendToPurge(q, message, offset) ==
  addMessage(q, message, message.createdAt + offset)

\* messages.forEach(msg => this.sendToPurge(msg))
RECURSIVE sendAllToPurge(_, _, _)
sendAllToPurge(q, messages, offset) ==
  IF messages = <<>> THEN q
  ELSE sendAllToPurge(sendToPurge(q, Head(messages), offset),
                      Tail(messages), offset)

\* the n newest messages of S, newest first
RECURSIVE newestFirst(_, _)
newestFirst(S, n) ==
  IF S = {} \/ n = 0 THEN <<>>
  ELSE LET m == CHOOSE x \in S : \A y \in S : y.id <= x.id
       IN <<m>> \o newestFirst(S \ {m}, n - 1)

\* what the server answers to chan.fetchMessages(params)
fetchMessages(chan, params) ==
  newestFirst({m \in discordMessages :
                 /\ m.channel = chan
                 /\ ("before" \in DOMAIN params => m.id < params.before)},
              params.limit)

\* index of the first channel that is undefined, Len + 1 when none is
RECURSIVE firstUndefined(_, _)
firstUndefined(cs, i) ==
  IF i > Len(cs) THEN i
  ELSE IF cs[i] = Undefined THEN i
  ELSE firstUndefined(cs, i + 1)

WatcherInit ==
  /\ ready = FALSE
  /\ chans = <<>>
  /\ lifeTimeOffset = 0
  /\ fetches = <<>>

\* the 'ready' handler
WatcherStart ==
  /\ alive
  /\ ~ready
  /\ ready' = TRUE
  /\ chans' = resolveChannels(mappings)
  /\ lifeTimeOffset' = getLifeTimeOffset(lifeTime)
  /\ last' = [op |-> "ready"]
  /\ UNCHANGED <<now, discordVars, purgeVars, mappings, lifeTime, fetches, alive,
                 histVars>>

\* the setInterval callback
watcherTicker ==
  /\ alive
  /\ ready
  /\ Len(fetches) < MaxFetch
  /\ LET k == firstUndefined(chans, 1)
         params == fetchParams(messageQueue)
     IN /\ fetches' = fetches \o
                      [i \in 1..(k - 1) |-> [chan |-> chans[i], params |-> params]]
        /\ messageQueue' = IF k > 1 THEN sortByDueDate(messageQueue)
                           ELSE messageQueue
        /\ alive' = (k > Len(chans))
        /\ last' = [op |-> "poll", n |-> k - 1]
  /\ UNCHANGED <<now, discordVars, sas, stats, purgeTimerInterval, purgeTimer,
                 deletes, backoffs, mappings, lifeTime, ready, chans,
                 lifeTimeOffset, histVars>>

\* the fulfilment callback of chan.fetchMessages()
FetchFulfilled(i) ==
  /\ alive
  /\ i \in DOMAIN fetches
  /\ LET messages == fetchMessages(fetches[i].chan, fetches[i].params)
     IN /\ messageQueue' = sendAllToPurge(messageQueue, messages, lifeTimeOffset)
        /\ last' = [op |-> "fetched"]
  /\ fetches' = splice(fetches, i)
  /\ UNCHANGED <<now, discordVars, sas, stats, purgeTimerInterval, purgeTimer,
                 deletes, backoffs, mappings, lifeTime, ready, chans,
                 lifeTimeOffset, alive,
                 histVars>>

\* FetchRejected that gives up the channel and the other requests of the poll
FetchRejectedAll(i) ==
  /\ alive
  /\ i \in DOMAIN fetches
  /\ fetches' = <<>>
  /\ chans' = SelectSeq(chans, LAMBDA c : c # fetches[i].chan)
  /\ last' = [op |-> "fetchError"]
  /\ UNCHANGED <<now, discordVars, purgeVars, mappings, lifeTime, ready,
                 lifeTimeOffset, alive, histVars>>

\* the rejection callback of chan.fetchMessages()
FetchRejected(i) ==
  /\ alive
  /\ i \in DOMAIN fetches
  /\ fetches' = splice(fetches, i)
  /\ last' = [op |-> "fetchError"]
  /\ UNCHANGED <<now, discordVars, purgeVars, mappings, lifeTime, ready, chans,
                 lifeTimeOffset, alive,
                 histVars>>

\* Watcher.onDiscordMessage(message): the queue it leaves
onDiscordMessage(q, cs, message, offset) ==
  IF \E i \in DOMAIN cs : cs[i] = message.channel
  THEN sendToPurge(q, message, offset)
  ELSE q

(* -------------------------------- Bot ---------------------------------- *)
\* the discord 'message' handler: a message has appeared in channel c and
\* is relayed by sendToIRC, which touches neither the Watcher nor the Purge
DiscordMessage(c) ==
  /\ alive
  /\ nextId <= MaxMsg
  /\ LET message == [id |-> nextId, channel |-> c, createdAt |-> now]
     IN /\ discordMessages' = discordMessages \cup {message}
        /\ last' = [op |-> "message", id |-> message.id]
  /\ nextId' = nextId + 1
  /\ UNCHANGED <<now, purgeVars, watcherVars, alive, histVars>>

\* the history of removals, after a step from queue q to queue q2
leaving(h, q, q2) ==
  [id \in DOMAIN h |-> IF id \in ids(q) \ ids(q2) THEN h[id] + 1 ELSE h[id]]

\* message.delete() settles: the server has deleted the message
DeleteFulfilled(i) ==
  /\ i \in DOMAIN deletes
  /\ deletes[i].message \in discordMessages
  /\ deleteFulfilled(i)
  /\ discordMessages' = discordMessages \ {deletes[i].message}
  /\ removed' = leaving(removed, messageQueue, messageQueue')
  /\ UNCHANGED <<nextId, failed>>

\* message.delete() settles: the server has refused, or was not reached
DeleteRejected(i) ==
  /\ i \in DOMAIN deletes
  /\ deleteRejected(i)
  /\ removed' = leaving(removed, messageQueue, messageQueue')
  /\ failed' = failed \cup {deletes[i].message.id}
  /\ UNCHANGED discordVars

(* ------------------------------- clock --------------------------------- *)
Clock ==
  /\ now < MaxClock * ClockStep
  /\ now' = now + ClockStep
  /\ last' = [op |-> "clock"]
  /\ UNCHANGED <<discordVars, purgeVars, watcherVars, alive, histVars>>

(* ------------------------- the composed system ------------------------- *)
\* new Bot(options) with the given channel mapping and message lifetime
Boot(m, lt) ==
  /\ now = 0
  /\ discordMessages = {}
  /\ nextId = 1
  /\ PurgeInit
  /\ mappings = m
  /\ lifeTime = lt
  /\ WatcherInit
  /\ alive = TRUE
  /\ removed = [id \in 1..MaxMsg |-> 0]
  /\ failed = {}
  /\ last = [op |-> "init"]

Init == \E m \in MappingConfigs : Boot(m, messageLifeTime)

Next ==
  \/ purgeTimerWatch
  \/ \E i \in 1..purgeCountPerRound : DeleteFulfilled(i)
  \/ \E i \in 1..purgeCountPerRound : DeleteRejected(i)
  \/ WatcherStart
  \/ watcherTicker
  \/ \E i \in DOMAIN fetches : FetchFulfilled(i)
  \/ \E i \in DOMAIN fetches : FetchRejected(i)
  \/ \E c \in DiscordChannels : DiscordMessage(c)
  \/ Clock

Spec == Init /\ [][Next]_vars

(* ------------------- the Purge under arbitrary callers ------------------ *)
\* the messages and due dates callers hand to the Purge
Messages ==
  {[id |-> i, channel |-> findByName("general"), createdAt |-> 0] : i \in 1..MaxId}
DueDates == {0, ClockStep}

\* a caller of purge.addMessage(message, dueDate); ids are opaque to the
\* Purge, so a message it has not seen before carries the next unused id
Submit(message, dueDate) ==
  /\ alive
  /\ message.id <= nextId
  /\ nextId' = IF message.id = nextId THEN nextId + 1 ELSE nextId
  /\ messageQueue' = addMessage(messageQueue, message, dueDate)
  /\ last' = [op |-> "addMessage", id |-> message.id, dueDate |-> dueDate]
  /\ UNCHANGED <<now, discordMessages, sas, stats, purgeTimerInterval,
                 purgeTimer, deletes, backoffs, watcherVars, alive, histVars>>

\* a caller of purge.getOldestMessageInQueue(), which sorts the queue
Oldest ==
  /\ alive
  /\ messageQueue' = sortByDueDate(messageQueue)
  /\ last' = [op |-> "oldest"]
  /\ UNCHANGED <<now, discordVars, sas, stats, purgeTimerInterval, purgeTimer,
                 deletes, backoffs, watcherVars, alive, histVars>>

PurgeDeleteFulfilled(i) ==
  deleteFulfilled(i) /\ UNCHANGED <<discordVars, histVars>>

PurgeDeleteRejected(i) ==
  deleteRejected(i) /\ UNCHANGED <<discordVars, histVars>>

PurgeNext ==
  \/ purgeTimerWatch
  \/ \E i \in 1..purgeCountPerRound : PurgeDeleteFulfilled(i)
  \/ \E i \in 1..purgeCountPerRound : PurgeDeleteRejected(i)
  \/ \E m \in Messages, d \in DueDates : Submit(m, d)
  \/ Oldest
  \/ Clock

PurgeSpec == Boot(Mappings, messageLifeTime) /\ [][PurgeNext]_vars

\* ---------------------------------------------------------------------------
\* The Purge with callers that submit each message once.  The pending timer
\* fires (start() and continue() always leave one), a delete() that was
\* called settles, and the clock goes on.
\* ---------------------------------------------------------------------------

SubmitOnce(message, dueDate) == message.id = nextId /\ Submit(message, dueDate)

DrainNext ==
  \/ purgeTimerWatch
  \/ \E i \in 1..purgeCountPerRound : PurgeDeleteFulfilled(i)
  \/ \E i \in 1..purgeCountPerRound : PurgeDeleteRejected(i)
  \/ \E m \in Messages, d \in DueDates : SubmitOnce(m, d)
  \/ Oldest
  \/ Clock

DrainSpec ==
  /\ Boot(Mappings, messageLifeTime)
  /\ [][DrainNext]_vars
  /\ WF_vars(purgeTimerWatch)
  /\ WF_vars(\E i \in 1..purgeCountPerRound :
               PurgeDeleteFulfilled(i) \/ PurgeDeleteRejected(i))
  /\ WF_vars(Clock)

\* ---------------------------------------------------------------------------
\* The bot without what it only writes: stats and the interval are read by no
\* condition of the code (the interval only as a delay), so the handlers
\* below leave them, and the history variables, as they are.  Runs in which
\* deletes are retried for ever are then runs over finitely many states.
\* Messages are posted early enough for the clock of the model to pass their
\* due dates, every fetch succeeds and both channels are monitored.
\* ---------------------------------------------------------------------------

\* purgeTimerWatch: either branch, then continue()
tick ==
  /\ alive
  /\ purgeTimer # <<>>
  /\ \/ /\ Len(sas) > 0
        /\ purgeTimer' = continue(purgeTimer, Ratio(Len(sas), purgeCountPerRound))
        /\ last' = [op |-> "backlog"]
        /\ UNCHANGED <<sas, deletes>>
     \/ /\ Len(sas) = 0
        /\ LET r == purgeLoop(0, messageQueue, sas, now, <<>>)
           IN /\ sas' = r.sas
              /\ deletes' = deletes \o r.called
              /\ last' = [op |-> "batch", n |-> Len(r.called)]
        /\ purgeTimer' = continue(purgeTimer, purgeTimerInterval)
  /\ UNCHANGED <<now, discordVars, messageQueue, stats, purgeTimerInterval,
                 backoffs, watcherVars, alive, histVars>>

\* either callback of tuple.message.delete(): removeFromStores(tuple); when
\* the delete succeeded the message is gone from the server
settle(i, ok) ==
  /\ alive
  /\ i \in DOMAIN deletes
  /\ ok => deletes[i].message \in discordMessages
  /\ LET tuple == deletes[i]
         r == removeFromStores(messageQueue, sas, tuple)
     IN /\ messageQueue' = r.messageQueue
        /\ sas' = r.sas
        /\ last' = [op |-> IF ok THEN "deleted" ELSE "error",
                    id |-> tuple.message.id]
        /\ discordMessages' = IF ok THEN discordMessages \ {tuple.message}
                              ELSE discordMessages
  /\ deletes' = splice(deletes, i)
  /\ UNCHANGED <<now, nextId, stats, purgeTimerInterval, purgeTimer, backoffs,
                 watcherVars, alive, histVars>>

\* a message is posted to channel c
EarlyMessage(c) ==
  /\ alive
  /\ nextId <= MaxPosted
  /\ now + ClockStep < MaxTime * ClockStep
  /\ LET message == [id |-> nextId, channel |-> c, createdAt |-> now]
     IN /\ discordMessages' = discordMessages \cup {message}
        /\ last' = [op |-> "message", id |-> message.id]
  /\ nextId' = nextId + 1
  /\ UNCHANGED <<now, purgeVars, watcherVars, alive, histVars>>

Elapse ==
  /\ now < MaxTime * ClockStep
  /\ now' = now + ClockStep
  /\ last' = [op |-> "clock"]
  /\ UNCHANGED <<discordVars, purgeVars, watcherVars, alive, histVars>>

DiscoveryNext ==
  \/ tick
  \/ \E i \in 1..purgeCountPerRound : settle(i, TRUE)
  \/ \E i \in 1..purgeCountPerRound : settle(i, FALSE)
  \/ WatcherStart
  \/ watcherTicker
  \/ \E i \in DOMAIN fetches : FetchFulfilled(i)
  \/ \E c \in DiscordChannels : EarlyMessage(c)
  \/ Elapse

DiscoverySpec ==
  /\ Boot(MappingsBoth, messageLifeTime)
  /\ [][DiscoveryNext]_vars
  /\ WF_vars(tick)
  /\ WF_vars(\E i \in 1..purgeCountPerRound, ok \in BOOLEAN : settle(i, ok))
  /\ WF_vars(WatcherStart)
  /\ WF_vars(watcherTicker)
  /\ WF_vars(\E i \in DOMAIN fetches : FetchFulfilled(i))
  /\ WF_vars(Elapse)

\* ---------------------------------------------------------------------------
\* The Watcher over the message lifetimes a configuration may give: each of
\* days, hours, minutes and seconds set or not, and no lifetime at all.
\* ---------------------------------------------------------------------------

LifeTimeFields == {"days", "hours", "minutes", "seconds"}

LifeTimes ==
  {Undefined} \cup
  {[f \in D |-> lt[f]] :
     D \in SUBSET LifeTimeFields,
     lt \in [days : {0, 2}, hours : {3}, minutes : {30}, seconds : {7}]}

LifeNext ==
  \/ WatcherStart
  \/ watcherTicker
  \/ \E i \in DOMAIN fetches : FetchFulfilled(i)
  \/ \E i \in DOMAIN fetches : FetchRejected(i)
  \/ \E c \in DiscordChannels : DiscordMessage(c)
  \/ Clock

LifeSpec == (\E lt \in LifeTimes : Boot(Mappings, lt)) /\ [][LifeNext]_vars

(* ------------------------- properties of the Purge --------------------- *)
\* the tuples whose delete() the batch tick that ran last has called
lastBatch == SubSeq(deletes, Len(deletes) - last.n + 1, Len(deletes))

\* the tracked entries that are past due and not in flight
pastDue == SelectSeq(messageQueue,
                     LAMBDA x : x.dueDate < now /\ x.message.id \notin ids(sas))

Min(a, b) == IF a <= b THEN a ELSE b

\* the sequence s without the tuples of message id
without(s, id) == SelectSeq(s, LAMBDA x : x.message.id # id)

\* C1: no message id has more than one delete request outstanding, and every
\* outstanding request is for an id of sas, which batch selection excludes
NoDoubleDelete ==
  /\ \A i, j \in DOMAIN deletes :
       i # j => deletes[i].message.id # deletes[j].message.id
  /\ ids(deletes) \subseteq ids(sas)

\* a tick has found a delete outstanding while another entry was past due
NoDoubleDeleteWitness ==
  /\ last.op = "backlog"
  /\ Len(deletes) >= 1
  /\ Len(pastDue) >= 1

\* C2: every tuple a tick calls delete() on has a dueDate strictly before
\* the tick's current time
NoEarlyDeletion ==
  last.op = "batch" => \A i \in DOMAIN lastBatch : lastBatch[i].dueDate < now

\* a tick has deleted an entry and left one that is due exactly now
NoEarlyDeletionWitness ==
  /\ last.op = "batch"
  /\ last.n >= 1
  /\ \E i \in DOMAIN messageQueue :
       /\ messageQueue[i].dueDate = now
       /\ messageQueue[i].message.id \notin ids(sas)

\* C3: messageQueue holds at most one entry per message id, and addMessage
\* for an id that is tracked leaves messageQueue as it is
Dedup ==
  [][/\ Cardinality(ids(messageQueue')) = Len(messageQueue')
     /\ (last'.op = "addMessage" /\ last'.id \in ids(messageQueue))
          => messageQueue' = messageQueue]_vars

\* a tracked id has been submitted again with another dueDate
DedupWitness ==
  /\ last.op = "addMessage"
  /\ \E i \in DOMAIN messageQueue :
       /\ messageQueue[i].message.id = last.id
       /\ messageQueue[i].dueDate # last.dueDate

\* C4: a tick that finds sas empty and d entries past due calls delete() on
\* exactly the min(purgeCountPerRound, d) of them with the smallest dueDates
BatchSelection ==
  last.op = "batch" =>
    /\ last.n = Min(purgeCountPerRound, last.n + Len(pastDue))
    /\ \A i \in DOMAIN lastBatch, j \in DOMAIN pastDue :
         lastBatch[i].dueDate <= pastDue[j].dueDate

\* C5: the rejection callback takes the id out of messageQueue and sas, adds
\* one to stats.errors and changes nothing else of the stores and the stats
DropAfterFailure ==
  [][last'.op = "error" =>
       /\ last'.id \in ids(sas)
       /\ messageQueue' = without(messageQueue, last'.id)
       /\ sas' = without(sas, last'.id)
       /\ stats' = [stats EXCEPT !.errors = @ + 1]]_vars

\* a delete has failed while other entries were tracked and in flight
DropAfterFailureWitness ==
  /\ last.op = "error"
  /\ stats.errors = 1
  /\ Len(sas) >= 1
  /\ Len(messageQueue) >= 2

\* C8: a tick that finds one entry, past due, and sas empty calls delete() on
\* it, counts it and puts it in sas; the fulfilment callback adds one to
\* stats.itemsDeleted, leaves stats.errors and drops the id from both stores
SuccessPath ==
  [][/\ (/\ last'.op = "batch"
         /\ Len(messageQueue) = 1
         /\ messageQueue[1].dueDate < now
         /\ sas = <<>>)
        => /\ sas' = messageQueue
           /\ deletes' = deletes \o messageQueue
           /\ stats' = [stats EXCEPT !.itemsDeletedCalled = @ + 1]
           /\ messageQueue' = messageQueue
     /\ last'.op = "deleted"
        => /\ stats' = [stats EXCEPT !.itemsDeleted = @ + 1]
           /\ last'.id \notin ids(messageQueue') \cup ids(sas')]_vars

\* the only tracked entry has been deleted
SuccessPathWitness ==
  /\ last.op = "deleted"
  /\ stats = [itemsDeleted |-> 1, itemsDeletedCalled |-> 1, errors |-> 0]
  /\ messageQueue = <<>>
  /\ sas = <<>>

\* C10: at most purgeCountPerRound deletes are outstanding
BoundedInFlight ==
  /\ Len(sas) <= purgeCountPerRound
  /\ Len(deletes) <= purgeCountPerRound

\* a full batch is outstanding while more entries are tracked
BoundedInFlightWitness ==
  /\ Len(sas) = purgeCountPerRound
  /\ Len(deletes) = purgeCountPerRound
  /\ Len(messageQueue) > purgeCountPerRound

(* -------------------- properties of the composed system ---------------- *)
\* the channels the Watcher monitors
monitored == {chans[i] : i \in DOMAIN chans}

RECURSIVE Sum(_, _)
Sum(f, S) ==
  IF S = {} THEN 0
  ELSE LET x == CHOOSE y \in S : TRUE IN f[x] + Sum(f, S \ {x})

\* C6 as stated: an id of which a delete has failed is never tracked again
\* and no further delete is requested for it
NeverRetried ==
  \A id \in failed : id \notin ids(messageQueue) /\ id \notin ids(deletes)

\* C6, amended: the rejection callback drops the id; an id of which a delete
\* has failed comes back into messageQueue only with the result of a poll,
\* while the message still exists in a monitored channel; and a further
\* delete is requested for it only while it is tracked again
RetriedOnlyByPoll ==
  [][/\ last'.op = "error" => last'.id \notin ids(messageQueue')
     /\ \A id \in failed :
          /\ id \in ids(messageQueue') \ ids(messageQueue)
               => /\ last'.op = "fetched"
                  /\ \E m \in discordMessages :
                       m.id = id /\ m.channel \in monitored
          /\ id \in ids(deletes') \ ids(deletes)
               => id \in ids(messageQueue)]_vars

\* a second delete is outstanding for a message of which a delete has failed
RetriedOnlyByPollWitness ==
  \E id \in failed : id \in ids(deletes) /\ removed[id] = 1

\* C7 as stated: an entry leaves messageQueue only in the step that settles
\* its own delete, and for each id that happens once in the whole execution
RemovedOnce ==
  /\ [][\A id \in ids(messageQueue) \ ids(messageQueue') :
          /\ last'.op \in {"deleted", "error"}
          /\ last'.id = id
          /\ id \in ids(deletes)]_vars
  /\ [](\A id \in DOMAIN removed : removed[id] <= 1)

\* C7, amended: an entry leaves messageQueue only in the step that settles
\* its own delete, and that step removes this entry alone; every settled
\* delete removes one entry, so an id that a later poll has submitted again
\* is removed again
RemovedOnCompletion ==
  [][/\ \A id \in ids(messageQueue) \ ids(messageQueue') :
          /\ last'.op \in {"deleted", "error"}
          /\ last'.id = id
          /\ id \in ids(deletes)
          /\ messageQueue' = without(messageQueue, id)
     /\ Sum(removed', DOMAIN removed) = stats'.itemsDeleted + stats'.errors
    ]_vars

\* an id has left messageQueue for the second time
RemovedOnCompletionWitness ==
  /\ last.op \in {"deleted", "error"}
  /\ removed[last.id] = 2

\* C9: a message that appears in a monitored channel is in messageQueue, with
\* dueDate = createdAt + lifeTimeOffset, when the 'message' handler returns;
\* one that appears in another channel is not
PushPath ==
  (last.op = "message" /\ ready) =>
    \A m \in discordMessages :
      m.id = last.id =>
        IF m.channel \in monitored
        THEN \E i \in DOMAIN messageQueue :
               /\ messageQueue[i].message = m
               /\ messageQueue[i].dueDate = m.createdAt + lifeTimeOffset
        ELSE m.id \notin ids(messageQueue)

\* a < b for two fractions with positive denominators
Less(a, b) == a.n * b.d < b.n * a.d

\* C11: a tick that finds k >= 1 deletes unsettled sets the interval to
\* old * (1 + k / purgeCountPerRound): new * b = old * (b + k); the new
\* interval is greater than the old one, greater than what fewer unsettled
\* deletes would have given and smaller than what more would have given.  The
\* old interval is whatever the ticks before left, so that backlog ticks
\* compound.
BackoffFormula ==
  [][last'.op = "backlog" =>
       LET k == Len(sas)
           b == purgeCountPerRound
           old == purgeTimerInterval
           new == purgeTimerInterval'
       IN /\ k >= 1
          /\ new.n * b * old.d = old.n * (b + k) * new.d
          /\ Less(old, new)
          /\ \A j \in 1..b : /\ j < k => Less(backoff(old, j), new)
                             /\ j > k => Less(new, backoff(old, j))]_vars

\* a second backlog tick in a row, with a full batch unsettled, has grown an
\* interval that the first one had grown already
BackoffFormulaWitness ==
  /\ last.op = "backlog"
  /\ backoffs = 2
  /\ Len(sas) = purgeCountPerRound
  /\ purgeTimerInterval = Ratio(purgeTimerInterval0 * 4, 1)

\* C12: the interval never gets smaller; only a tick that finds deletes
\* unsettled changes it, so that ticks with sas empty, submissions, polls and
\* settled deletes leave it as it is; once such a tick has happened the
\* interval stays above the configured one.
IntervalNeverShrinks ==
  /\ [][/\ ~Less(purgeTimerInterval', purgeTimerInterval)
        /\ last'.op # "backlog" => purgeTimerInterval' = purgeTimerInterval]_vars
  /\ [](backoffs > 0 => Less(Ratio(purgeTimerInterval0, 1), purgeTimerInterval))

\* a batch is selected with sas empty after a backlog tick had raised the
\* interval
IntervalNeverShrinksWitness ==
  /\ last.op = "batch"
  /\ last.n = 1
  /\ backoffs > 0
  /\ Less(Ratio(purgeTimerInterval0, 1), purgeTimerInterval)

\* C13: while a delete is unsettled its entry stays in sas and in
\* messageQueue and its promise stays outstanding: only its own fulfilment or
\* rejection takes it out, no step times it out.  As long as any delete is
\* unsettled no step calls delete(): sas and itemsDeletedCalled do not grow,
\* whatever is past due in the queue.
PermanentStall ==
  [][\A i \in DOMAIN deletes :
       LET id == deletes[i].message.id
           settles == last'.op \in {"deleted", "error"} /\ last'.id = id
       IN /\ id \in ids(sas) /\ id \in ids(messageQueue)
          /\ stats'.itemsDeletedCalled = stats.itemsDeletedCalled
          /\ ids(sas') \subseteq ids(sas)
          /\ ids(deletes') \subseteq ids(deletes)
          /\ ~settles => /\ id \in ids(deletes')
                         /\ id \in ids(sas')
                         /\ id \in ids(messageQueue')]_vars

\* two backlog ticks have passed, a delete is still
\* unsettled and an entry that is past due and not in flight was submitted last
PermanentStallWitness ==
  /\ backoffs >= 2
  /\ Len(deletes) = 1
  /\ last.op = "addMessage"
  /\ last.dueDate < now
  /\ last.id \in ids(messageQueue) \ ids(sas)

\* C14: a tick that finds sas non-empty calls no delete() and leaves
\* messageQueue, sas and the three counters as they are: it changes the
\* interval and the pending timer only.  A tick that selects a batch found
\* sas empty.
BacklogFrame ==
  [][/\ last'.op = "backlog" =>
          /\ Len(sas) > 0
          /\ UNCHANGED <<messageQueue, sas, stats, deletes, now, discordVars,
                         watcherVars, alive, histVars>>
     /\ last'.op = "batch" => Len(sas) = 0]_vars

\* a backlog tick has run while one of two tracked messages was in flight
BacklogFrameWitness ==
  /\ last.op = "backlog"
  /\ Len(messageQueue) = 2
  /\ Len(sas) = 1
  /\ Len(deletes) = 1

\* C15: there is always exactly one pending timer of the scheduler: each tick
\* consumes the one that fired and sets one.  After a tick with sas empty its
\* delay is the interval, after a tick with k deletes unsettled it is
\* k / purgeCountPerRound, and start() sets the configured interval.
TimerChain ==
  /\ Len(purgeTimer) = 1
  /\ last.op = "init" => purgeTimer[1] = Ratio(purgeTimerInterval0, 1)
  /\ last.op = "batch" => purgeTimer[1] = purgeTimerInterval
  /\ last.op = "backlog" => purgeTimer[1] = Ratio(Len(sas), purgeCountPerRound)

\* a backlog tick with one delete unsettled has set a timer of half a
\* millisecond
TimerChainWitness ==
  /\ last.op = "backlog"
  /\ Len(sas) = 1
  /\ purgeTimer = <<[n |-> 1, d |-> 2]>>
  /\ Less(purgeTimer[1], purgeTimerInterval)

\* the requests the poll that ran last has issued
issued == {i \in DOMAIN fetches : i > Len(fetches) - last.n}

\* C16: a poll asks every monitored channel for at most 50 messages.  It gives
\* no cursor exactly when messageQueue is empty; else the cursor is the id of
\* an entry of messageQueue of smallest dueDate, in flight or not, which is
\* the oldest message tracked, so that the poll after a first poll goes on
\* below the oldest message that one has submitted.
PollCursor ==
  last.op = "poll" =>
    /\ alive => /\ last.n = Len(chans)
                /\ {fetches[i].chan : i \in issued} = monitored
    /\ \A i \in issued :
         LET p == fetches[i].params
         IN /\ p.limit = FetchLimit
            /\ ("before" \in DOMAIN p) <=> (messageQueue # <<>>)
            /\ "before" \in DOMAIN p =>
                 \E j \in DOMAIN messageQueue :
                   /\ messageQueue[j].message.id = p.before
                   /\ \A l \in DOMAIN messageQueue :
                        /\ messageQueue[j].dueDate <= messageQueue[l].dueDate
                        /\ messageQueue[j].message.createdAt
                             <= messageQueue[l].message.createdAt

\* a poll has taken the message in flight for cursor: it is older than the
\* other message tracked
PollCursorWitness ==
  /\ last.op = "poll"
  /\ Len(messageQueue) = 2
  /\ Len(sas) = 1
  /\ \E i \in issued : fetches[i].params = [before |-> sas[1].message.id,
                                             limit |-> FetchLimit]
  /\ \E j \in DOMAIN messageQueue : sas[1].dueDate < messageQueue[j].dueDate

\* C17: a failed fetch leaves messageQueue, sas, the counters and the
\* monitored channels as they are and settles its own request only: the
\* other requests stay outstanding and their callbacks can run.  Every poll
\* asks every monitored channel, the one whose fetch failed included.
FetchFailure ==
  /\ [][/\ last'.op = "fetchError" =>
             /\ UNCHANGED <<messageQueue, sas, stats, deletes, chans, alive>>
             /\ \E i \in DOMAIN fetches : fetches' = splice(fetches, i)
        /\ (last'.op = "poll" /\ alive') =>
             \A c \in monitored :
               \E i \in DOMAIN fetches' :
                 i > Len(fetches) /\ fetches'[i].chan = c]_vars
  /\ [](alive => \A i \in DOMAIN fetches : ENABLED FetchFulfilled(i))

\* of the two requests of a poll one has failed, the other one is outstanding
\* and will find a message of its channel
FetchFailureWitness ==
  /\ last.op = "fetchError"
  /\ Len(chans) = 2
  /\ Len(fetches) = 1
  /\ fetchMessages(fetches[1].chan, fetches[1].params) # <<>>

\* a field of the lifetime, 0 when the lifetime or the field is not set
unsetAs0(lt, f) == IF f \in DOMAIN lt THEN lt[f] ELSE 0

\* C18: every entry the Watcher has submitted is due at the creation time of
\* its message plus the lifetime offset, which is
\* ((days * 24 + hours) * 60 + minutes) * 60 + seconds, in milliseconds, with
\* a field that is not set counted as 0 and no lifetime at all giving 0.
DueDate ==
  LET offset == (((unsetAs0(lifeTime, "days") * 24
                     + unsetAs0(lifeTime, "hours")) * 60
                    + unsetAs0(lifeTime, "minutes")) * 60
                   + unsetAs0(lifeTime, "seconds")) * 1000
  IN /\ ready => lifeTimeOffset = offset
     /\ lifeTime = Undefined => offset = 0
     /\ \A i \in DOMAIN messageQueue :
          messageQueue[i].dueDate = messageQueue[i].message.createdAt + offset

\* a message created after the start is tracked under a lifetime of 2 days,
\* 3 hours, 30 minutes and 7 seconds
DueDateWitness ==
  /\ lifeTime = [days |-> 2, hours |-> 3, minutes |-> 30, seconds |-> 7]
  /\ \E i \in DOMAIN messageQueue :
       /\ messageQueue[i].message.createdAt > 0
       /\ messageQueue[i].dueDate = messageQueue[i].message.createdAt + 185407000

\* the channels of discord that some mapping names, by name or by id
resolved ==
  {c \in DiscordChannels :
     \E i \in DOMAIN mappings :
       IF mappings[i].hash THEN c.type = "text" /\ c.name = mappings[i].rest
       ELSE c.id = mappings[i].rest}

\* C19: a mapping that resolves to no channel at start, by name or by id,
\* adds nothing to the monitored channels: these are the channels that some
\* mapping resolves to, no fetch is tried on anything else, the process goes
\* on, and every poll asks the channels that did resolve.
UnresolvedExcluded ==
  /\ ready => monitored = resolved
  /\ \A i \in DOMAIN fetches : fetches[i].chan \in DiscordChannels
  /\ alive
  /\ last.op = "poll" => {fetches[i].chan : i \in issued} = resolved

\* C20: every id in flight is an id of the queue, and no id is in flight
\* twice.
InFlightTracked ==
  /\ ids(sas) \subseteq ids(messageQueue)
  /\ \A i, j \in DOMAIN sas : sas[i].message.id = sas[j].message.id => i = j

\* a full batch is in flight while the queue, which holds one entry more, has
\* been sorted for the oldest message
InFlightTrackedWitness ==
  /\ last.op = "oldest"
  /\ Len(sas) = purgeCountPerRound
  /\ Len(messageQueue) > Len(sas)

\* C21: in every state itemsDeletedCalled = itemsDeleted + errors + the
\* number of entries of sas, and no step makes any of the three counters
\* smaller.
StatsAccounting ==
  /\ [](stats.itemsDeletedCalled = stats.itemsDeleted + stats.errors + Len(sas))
  /\ [][/\ stats'.itemsDeletedCalled >= stats.itemsDeletedCalled
        /\ stats'.itemsDeleted >= stats.itemsDeleted
        /\ stats'.errors >= stats.errors]_vars

\* one delete has succeeded, one has failed and one is unsettled
StatsAccountingWitness ==
  /\ stats.itemsDeleted = 1
  /\ stats.errors = 1
  /\ Len(sas) = 1
  /\ stats.itemsDeletedCalled = 3

\* C22: when every delete() settles, the timer keeps firing, time goes on and
\* each message is submitted once, an entry of messageQueue whose dueDate has
\* passed is selected and leaves messageQueue: a batch always takes the
\* oldest past-due entry, so that none is passed over for ever.
DrainLiveness ==
  \A id \in 1..MaxId :
    (\E i \in DOMAIN messageQueue :
       messageQueue[i].message.id = id /\ messageQueue[i].dueDate < now)
    ~> (id \notin ids(messageQueue) /\ id \notin ids(sas))

\* three messages were submitted and three deletes called, over more than
\* one batch with a backlog tick in between, and the queue is empty again
DrainLivenessWitness ==
  /\ nextId > 3
  /\ stats.itemsDeletedCalled = 3
  /\ backoffs >= 1
  /\ messageQueue = <<>>
  /\ sas = <<>>

\* C23: when polls keep firing, fetches succeed and deletes settle, every
\* message that is in a monitored channel gets tracked: also one posted while
\* messageQueue was not empty, and one in another channel than the oldest
\* message tracked.
DiscoveryLiveness ==
  \A id \in 1..MaxPosted :
    (\E m \in discordMessages : m.id = id /\ m.channel \in monitored)
    ~> (id \in ids(messageQueue))
====
